---- MODULE Spec2Model ----
(***************************************************************************)
(* Model of OpenFoodFacts/food_dashboard.py: the paginated API fetcher,    *)
(* the compressed-CSV filter, the aggregation done by save_data and by the *)
(* live chart code, the saved-summary store, and the mode dispatch of the  *)
(* Streamlit script.                                                       *)
(*                                                                         *)
(* Python strings are modelled as sequences of one-character strings, so   *)
(* that split, strip, replace and substring tests are computed as Python   *)
(* computes them.                                                          *)
(***************************************************************************)
EXTENDS Integers, Sequences, FiniteSets, TLC

VARIABLES
    \* ---- environment and locals of fetch_products_by_country ----
    api_pages,      \* what text_search answers for page k
    fpc,            \* position in fetch_products_by_country
    search_result,  \* local search_result
    total_pages,    \* local total_pages
    page,           \* loop variable page
    all_products,   \* local all_products
    api_log,        \* requests issued and delays incurred, in order
    api_ret,        \* value returned by the fetcher (meaningful once fpc = "done")
    \* ---- environment and locals of fetch_products_from_csv ----
    csv_data,       \* the data lines of the dump, after its header line
    country_code,   \* argument country_code
    cpc,            \* position in fetch_products_from_csv
    temp_exists,    \* whether temp_<country_code>.csv exists on disk
    temp_file,      \* the lines of temp_<country_code>.csv
    temp_created,   \* whether this call has created the scratch file
    matching_products,  \* local matching_products
    csv_products,   \* local products
    csv_ret,        \* value returned (meaningful once cpc = "done")
    csv_msg,        \* the st.success / st.warning / st.error message shown
    \* ---- the session, the table store and the page ----
    session_products,       \* st.session_state.products (<<>> stands for None)
    selected_country_name,  \* the country selector's value
    store,          \* the rows of table food_data, in insertion order
    now,            \* the clock: datetime.now() of the latest save
    shown,          \* the four charts on the page and the data behind them
    save_result,    \* what the last save_data returned: "none", "True", "False"
    mode,           \* the mode selector's value
    offered,        \* the widgets the last run of the script put on the page
    invoked,        \* the fetcher the last run of the script called, or "none"
    fetch_ret,      \* what that fetcher returned (<<>>: nothing, or no fetcher called)
    fetched_for,    \* history: the country the session's products were fetched for
    deleted,        \* the "Deleted: <name>" report of the last run, if it made one
    \* ---- one tag going through the prefix removal ----
    raw_tag,        \* a tag as it stands in a product's tag field
    stripped        \* the results of removing the prefix from it, again and again

fetchVars == <<api_pages, fpc, search_result, total_pages, page, all_products, api_log, api_ret>>

csvVars == <<csv_data, country_code, cpc, temp_exists, temp_file, temp_created,
             matching_products, csv_products, csv_ret, csv_msg>>

appVars == <<session_products, selected_country_name, store, now, shown, save_result>>

pageVars == <<mode, offered, invoked, fetch_ret, fetched_for, deleted>>

stripVars == <<raw_tag, stripped>>

vars == <<fetchVars, csvVars, appVars, pageVars, stripVars>>

----------------------------------------------------------------------------
(* Bounds of the model *)

\* largest page_count the search endpoint reports
MaxPages == 3
\* largest number of products on one page
MaxPerPage == 1
\* largest number of data lines in the CSV dump
MaxLines == 2
\* largest number of products in the session's list
MaxProducts == 2
\* largest number of rows in the table store
MaxRows == 2
\* the last instant of the clock
MaxClock == 3
\* clock instants per minute shown in a display name
TicksPerMinute == 2
\* longest tag put through the prefix removal
MaxTagLen == 6
\* how many times in a row the prefix removal is applied to one tag
MaxStrips == 2

----------------------------------------------------------------------------
(* Generic helpers *)

\* a value standing for Python's None / an absent dictionary key
None == "None"

RECURSIVE Concat(_)
\* the concatenation of a sequence of sequences (list.extend applied in order)
Concat(ss) == IF ss = <<>> THEN <<>> ELSE Head(ss) \o Concat(Tail(ss))

Min(S) == CHOOSE x \in S : \A y \in S : x <= y

----------------------------------------------------------------------------
(* Python strings: sequences of one-character strings *)

\* str.lower on the letters the model uses
LowerChar(c) ==
    CASE c = "A" -> "a" [] c = "B" -> "b" [] c = "C" -> "c" [] c = "D" -> "d"
      [] c = "E" -> "e" [] c = "I" -> "i" [] c = "N" -> "n" [] c = "X" -> "x"
      [] c = "Z" -> "z"
      [] OTHER -> c
Lower(s) == [i \in 1..Len(s) |-> LowerChar(s[i])]

\* str.upper on the letters the model uses
UpperChar(c) ==
    CASE c = "a" -> "A" [] c = "b" -> "B" [] c = "c" -> "C" [] c = "d" -> "D"
      [] c = "e" -> "E" [] c = "i" -> "I" [] c = "n" -> "N" [] c = "x" -> "X"
      [] c = "z" -> "Z"
      [] OTHER -> c
Upper(s) == [i \in 1..Len(s) |-> UpperChar(s[i])]

\* pat in s
Contains(s, pat) ==
    \E i \in 0..(Len(s) - Len(pat)) : SubSeq(s, i + 1, i + Len(pat)) = pat

Whitespace == {" ", "\t", "\n", "\r"}

\* str.strip(): leading and trailing whitespace removed
Strip(s) ==
    LET keep == {i \in 1..Len(s) : s[i] \notin Whitespace}
    IN IF keep = {} THEN <<>>
       ELSE SubSeq(s, Min(keep), CHOOSE m \in keep : \A j \in keep : j <= m)

RECURSIVE SplitFrom(_, _, _)
\* str.split(sep) for a one-character sep, cur being the piece read so far
SplitFrom(s, sep, cur) ==
    IF s = <<>> THEN <<cur>>
    ELSE IF Head(s) = sep THEN <<cur>> \o SplitFrom(Tail(s), sep, <<>>)
    ELSE SplitFrom(Tail(s), sep, Append(cur, Head(s)))
Split(s, sep) == SplitFrom(s, sep, <<>>)

RECURSIVE Join(_, _)
\* sep.join(parts)
Join(parts, sep) ==
    IF parts = <<>> THEN <<>>
    ELSE IF Len(parts) = 1 THEN parts[1]
    ELSE parts[1] \o <<sep>> \o Join(Tail(parts), sep)

\* dict(zip(keys, values)): pairs up to the shorter length, a later pair
\* replacing an earlier one with the same key
DictZip(keys, values) ==
    LET n == IF Len(keys) <= Len(values) THEN Len(keys) ELSE Len(values)
    IN [k \in {keys[i] : i \in 1..n} |->
          values[CHOOSE i \in 1..n : keys[i] = k /\ \A j \in 1..n : keys[j] = k => j <= i]]

\* d.get(key) is truthy: the key is present and its value is not empty
Truthy(d, key) == key \in DOMAIN d /\ d[key] # <<>>

----------------------------------------------------------------------------
(* fetch_products_by_country *)

\* the products carried by a page that holds n products; a product is
\* identified by its page and its index on the page
PageProducts(k, n) == [i \in 1..n |-> <<k, i>>]

\* the answers text_search can give for page k: the call raises (ok = FALSE)
\* or returns a dictionary with 'products' and, possibly, 'page_count'
Responses(k) ==
    {[ok |-> FALSE, products |-> <<>>, has_page_count |-> FALSE, page_count |-> 0]}
    \cup {[ok |-> TRUE, products |-> PageProducts(k, n), has_page_count |-> FALSE, page_count |-> 0] :
             n \in 0..MaxPerPage}
    \cup {[ok |-> TRUE, products |-> PageProducts(k, n), has_page_count |-> TRUE, page_count |-> c] :
             n \in 0..MaxPerPage, c \in 0..MaxPages}

\* search_result.get('page_count', default)
GetPageCount(d, default) == IF d.has_page_count THEN d.page_count ELSE default

Request(k) == [op |-> "request", page |-> k]
Sleep == [op |-> "sleep", page |-> 0]

\* a loop that requests the later pages without the delay
IterEventsNoDelay(p) == IF p > 1 THEN <<Request(p)>> ELSE <<>>

\* what one loop iteration does before reading search_result: nothing for
\* page 1, a delay followed by a request for every later page (lines 142-145)
IterEvents(p) == IF p > 1 THEN <<Sleep, Request(p)>> ELSE <<>>

\* a handler that throws the accumulated list away
KeptOnErrorDiscarded(acc) == <<>>

\* what is left of the accumulated list when the request of an iteration
\* raises: the inner handler warns and breaks, all_products is untouched
\* (lines 150-152)
KeptOnError(acc) == acc

InitFetch ==
    \* any answer for page 1; for the later pages, whose page_count is never
    \* read (line 134), a failure or any number of products
    /\ \E first \in Responses(1), later \in [2..MaxPages -> 0..(MaxPerPage + 1)] :
         api_pages = [k \in 1..MaxPages |->
                        IF k = 1 THEN first
                        ELSE IF later[k] > MaxPerPage
                        THEN [ok |-> FALSE, products |-> <<>>, has_page_count |-> FALSE, page_count |-> 0]
                        ELSE [ok |-> TRUE, products |-> PageProducts(k, later[k]),
                              has_page_count |-> FALSE, page_count |-> 0]]
    /\ fpc = "start"
    /\ search_result = [ok |-> FALSE, products |-> <<>>, has_page_count |-> FALSE, page_count |-> 0]
    /\ total_pages = 0
    /\ page = 0
    /\ all_products = <<>>
    /\ api_log = <<>>
    /\ api_ret = <<>>

\* lines 129-134: the first request; a failure goes to the outer handler
\* (lines 163-165), which returns []
FirstRequest ==
    /\ fpc = "start"
    /\ api_log' = Append(api_log, Request(1))
    /\ IF ~api_pages[1].ok
       THEN /\ fpc' = "done"
            /\ api_ret' = <<>>
            /\ UNCHANGED <<search_result, total_pages, page, all_products>>
       ELSE /\ search_result' = api_pages[1]
            /\ all_products' = <<>>
            /\ total_pages' = GetPageCount(api_pages[1], 1)
            /\ page' = 1
            /\ fpc' = IF GetPageCount(api_pages[1], 1) >= 1 THEN "loop" ELSE "after"
            /\ UNCHANGED api_ret
    /\ UNCHANGED api_pages

\* lines 140-152: one iteration of the loop over range(1, total_pages + 1)
LoopIter ==
    /\ fpc = "loop"
    /\ page <= total_pages
    /\ api_log' = api_log \o IterEvents(page)
    /\ LET failed == page > 1 /\ ~api_pages[page].ok
           result == IF page > 1 THEN api_pages[page] ELSE search_result
       IN IF failed
          THEN /\ fpc' = "after"
               /\ all_products' = KeptOnError(all_products)
               /\ UNCHANGED <<search_result, page>>
          ELSE /\ search_result' = result
               /\ all_products' = all_products \o result.products
               /\ page' = page + 1
               /\ fpc' = IF page + 1 <= total_pages THEN "loop" ELSE "after"
    /\ UNCHANGED <<api_pages, total_pages, api_ret>>

\* lines 155-161: return the accumulated list ([] when it is empty)
FetchReturn ==
    /\ fpc = "after"
    /\ api_ret' = IF all_products = <<>> THEN <<>> ELSE all_products
    /\ fpc' = "done"
    /\ UNCHANGED <<api_pages, search_result, total_pages, page, all_products, api_log>>

\* the fetcher is not running
IdleFetch ==
    /\ api_pages = [k \in 1..MaxPages |->
                     [ok |-> FALSE, products |-> <<>>, has_page_count |-> FALSE, page_count |-> 0]]
    /\ fpc = "idle"
    /\ search_result = [ok |-> FALSE, products |-> <<>>, has_page_count |-> FALSE, page_count |-> 0]
    /\ total_pages = 0
    /\ page = 0
    /\ all_products = <<>>
    /\ api_log = <<>>
    /\ api_ret = <<>>

----------------------------------------------------------------------------
(* fetch_products_from_csv *)

Tab == "\t"
Newline == "\n"

col_a == <<"a">>
countries_tags == <<"c","o","u","n","t","r","i","e","s","_","t","a","g","s">>
col_b == <<"b">>

\* the header line of the dump: tab-separated column names
HeaderLine == Join(<<col_a, countries_tags, col_b>>, Tab) \o <<Newline>>

\* the country codes the function is called with
CountryCodes == {<<"i","n","d","i","a">>, <<"I","n","d","i","a">>}

\* line 189: country_tag = f'en:{country_code}'
CountryTag(code) == <<"e","n",":">> \o code

en_india == <<"e","n",":","i","n","d","i","a">>
en_India == <<"e","n",":","I","n","d","i","a">>
other == <<"x">>

\* the data lines of the dump: a first field (empty or not), a
\* countries_tags field (another country, the tag, the tag in another case)
\* and then nothing, one field (empty or holding the tag) or two fields, so
\* that lines have as many fields as the header, one fewer or one more
DataFields ==
    {<<f1, f2>> \o rest :
        f1 \in {<<>>, other},
        f2 \in {other, en_india, en_India},
        rest \in {<<>>, <<<<>>>>, <<en_india>>, <<<<>>, en_india>>}}
DataLines == {Join(fs, Tab) \o <<Newline>> : fs \in DataFields}

\* line 202: the substring test on the raw line
Prefilter(line, tag) == Contains(line, Lower(tag))

\* lines 223-227: the record of one line of the scratch file, and whether it
\* is kept
LineProduct(header, line) == DictZip(header, Split(Strip(line), Tab))
Keeps(product, tag) ==
    /\ Truthy(product, countries_tags)
    /\ Contains(product[countries_tags], Lower(tag))

RECURSIVE ParseLines(_, _, _)
\* lines 220-235: the records kept from the lines of the scratch file
ParseLines(header, lines, tag) ==
    IF lines = <<>> THEN <<>>
    ELSE LET product == LineProduct(header, Head(lines))
         IN (IF Keeps(product, tag) THEN <<product>> ELSE <<>>)
            \o ParseLines(header, Tail(lines), tag)

\* a cleanup that removes nothing
TempAfterCleanupKept(exists) == exists

\* lines 250-256: whether the scratch file exists after the finally block,
\* given whether it existed before: os.remove when os.path.exists
TempAfterCleanup(exists) == FALSE

InitCsv ==
    /\ csv_data \in UNION {[1..n -> DataLines] : n \in 0..MaxLines}
    /\ country_code \in CountryCodes
    /\ cpc = "start"
    /\ temp_exists = FALSE
    /\ temp_file = <<>>
    /\ temp_created = FALSE
    /\ matching_products = 0
    /\ csv_products = <<>>
    /\ csv_ret = <<>>
    /\ csv_msg = "none"

\* lines 174-193: locate the dump and read its header. A failure of
\* ProductDataset reaches the outer handler (lines 258-260); a failure while
\* reading the header reaches the inner one (lines 246-248) and the finally
\* block.
CsvOpen ==
    /\ cpc = "start"
    /\ \E outcome \in {"ok", "dataset_error", "header_error"} :
         /\ cpc' = CASE outcome = "ok" -> "filter"
                      [] outcome = "dataset_error" -> "done"
                      [] outcome = "header_error" -> "finally"
         /\ csv_msg' = CASE outcome = "ok" -> csv_msg
                          [] outcome = "dataset_error" -> "Error loading CSV dump"
                          [] outcome = "header_error" -> "Error processing CSV dump"
    /\ UNCHANGED <<csv_data, country_code, temp_exists, temp_file, temp_created,
                   matching_products, csv_products, csv_ret>>

\* lines 196-206: create the scratch file, write the header and every data
\* line passing the substring test. The scratch file may fail to open, and
\* reading the dump may fail after any number of lines.
CsvFilter ==
    /\ cpc = "filter"
    /\ \/ /\ cpc' = "finally"          \* open(temp_file_path, 'w') raises
          /\ csv_msg' = "Error processing CSV dump"
          /\ UNCHANGED <<temp_exists, temp_file, temp_created, matching_products>>
       \/ \E k \in 0..Len(csv_data) :
            LET read == SubSeq(csv_data, 1, k)
                matches == SelectSeq(read, LAMBDA l : Prefilter(l, CountryTag(country_code)))
            IN /\ temp_exists' = TRUE
               /\ temp_created' = TRUE
               /\ temp_file' = <<Strip(HeaderLine) \o <<Newline>>>> \o matches
               /\ matching_products' = Len(matches)
               /\ \/ /\ cpc' = "finally"             \* the read raises
                     /\ csv_msg' = "Error processing CSV dump"
                  \/ /\ k = Len(csv_data)            \* end of the dump
                     /\ cpc' = "filtered"
                     /\ UNCHANGED csv_msg
    /\ UNCHANGED <<csv_data, country_code, csv_products, csv_ret>>

\* lines 208-248: nothing matched, or the scratch file is parsed (or fails to
\* open); every way out goes through the finally block
CsvParse ==
    /\ cpc = "filtered"
    /\ IF matching_products = 0
       THEN /\ csv_msg' = "No products found"
            /\ UNCHANGED <<csv_products, csv_ret>>
       ELSE \/ /\ csv_msg' = "Error processing CSV dump"   \* open(temp_file_path, 'r') raises
               /\ UNCHANGED <<csv_products, csv_ret>>
            \/ LET header == Split(Strip(Head(temp_file)), Tab)
                   parsed == ParseLines(header, Tail(temp_file), CountryTag(country_code))
               IN /\ csv_products' = parsed
                  /\ csv_ret' = parsed
                  /\ csv_msg' = IF parsed # <<>> THEN "Successfully loaded"
                                ELSE "No valid products found"
    /\ cpc' = "finally"
    /\ UNCHANGED <<csv_data, country_code, temp_exists, temp_file, temp_created,
                   matching_products>>

\* lines 250-256: the finally block
CsvFinally ==
    /\ cpc = "finally"
    /\ temp_exists' = IF temp_exists THEN TempAfterCleanup(temp_exists) ELSE temp_exists
    /\ cpc' = "done"
    /\ UNCHANGED <<csv_data, country_code, temp_file, temp_created, matching_products,
                   csv_products, csv_ret, csv_msg>>

\* the CSV filter is not running
IdleCsv ==
    /\ csv_data = <<>>
    /\ country_code = <<>>
    /\ cpc = "idle"
    /\ temp_exists = FALSE
    /\ temp_file = <<>>
    /\ temp_created = FALSE
    /\ matching_products = 0
    /\ csv_products = <<>>
    /\ csv_ret = <<>>
    /\ csv_msg = "none"

----------------------------------------------------------------------------
(* Aggregation: save_data (lines 345-359) and the live charts (lines 628-695) *)

\* the characters of the model in code-point order, for string comparison
CodePoints ==
    <<" ", ",", ":", "A", "B", "C", "D", "E", "I", "K", "N", "O", "U", "W", "X", "Z",
      "a", "b", "c", "d", "e", "f", "i", "k", "l", "m", "n", "o", "r", "s", "t", "u",
      "w", "x", "z">>
Ord(c) == CHOOSE i \in DOMAIN CodePoints : CodePoints[i] = c

RECURSIVE StrLess(_, _)
\* s < t on Python strings
StrLess(s, t) ==
    IF t = <<>> THEN FALSE
    ELSE IF s = <<>> THEN TRUE
    ELSE IF Head(s) = Head(t) THEN StrLess(Tail(s), Tail(t))
    ELSE Ord(Head(s)) < Ord(Head(t))

\* p.get(key, default) on a product, a function from field names to strings
Get(p, key, default) == IF key \in DOMAIN p THEN p[key] ELSE default

unknown == <<"u","n","k","n","o","w","n">>
X == <<"X">>
Comma == ","
en_prefix == <<"e","n",":">>

RECURSIVE Replace(_, _)
\* s.replace(pat, ''): every non-overlapping occurrence of pat, found from
\* the left, removed
Replace(s, pat) ==
    IF Len(s) < Len(pat) THEN s
    ELSE IF SubSeq(s, 1, Len(pat)) = pat
         THEN Replace(SubSeq(s, Len(pat) + 1, Len(s)), pat)
         ELSE <<Head(s)>> \o Replace(Tail(s), pat)

\* [item for item in s.split(',') if item]
Tokens(s) == SelectSeq(Split(s, Comma), LAMBDA item : item # <<>>)

RECURSIVE CounterFrom(_, _)
\* Counter(xs) built on acc: (key, count) pairs in the order the keys are
\* first met
CounterFrom(xs, acc) ==
    IF xs = <<>> THEN acc
    ELSE LET x == Head(xs)
             at == {i \in DOMAIN acc : acc[i].key = x}
         IN CounterFrom(Tail(xs),
               IF at = {} THEN Append(acc, [key |-> x, count |-> 1])
               ELSE [acc EXCEPT ![CHOOSE i \in at : TRUE].count = @ + 1])
Counter(xs) == CounterFrom(xs, <<>>)

RECURSIVE InsertByCount(_, _)
\* e put into a list sorted by count descending, after the entries with the
\* same count (the order of first meeting is kept among ties)
InsertByCount(sorted, e) ==
    IF sorted = <<>> THEN <<e>>
    ELSE IF Head(sorted).count >= e.count THEN <<Head(sorted)>> \o InsertByCount(Tail(sorted), e)
    ELSE <<e>> \o sorted

RECURSIVE SortByCount(_, _)
SortByCount(entries, acc) ==
    IF entries = <<>> THEN acc
    ELSE SortByCount(Tail(entries), InsertByCount(acc, Head(entries)))

\* how many entries the charts keep
TopN == 5

\* Counter.most_common(n): the n entries with the largest counts as
\* (key, count) tuples, largest first
MostCommon(counter, n) ==
    LET sorted == SortByCount(counter, <<>>)
        kept == SubSeq(sorted, 1, IF Len(sorted) < n THEN Len(sorted) ELSE n)
    IN [i \in DOMAIN kept |-> [kind |-> "tuple", label |-> kept[i].key, count |-> kept[i].count]]

\* the tokens of one field over all products, in order
FieldTokens(products, field) ==
    Concat([i \in DOMAIN products |-> Tokens(Get(products[i], field, <<>>))])

\* lines 346-347: save_data's nutrition-grade distribution
SaveNutriScores(products) ==
    LET graded == SelectSeq(products, LAMBDA p : Get(p, "nutriscore_grade", <<>>) # <<>>)
    IN [i \in DOMAIN graded |-> Upper(Get(graded[i], "nutriscore_grade", unknown))]
SaveNutriScoreCounts(products) == Counter(SaveNutriScores(products))

\* lines 628-629: the live chart's nutrition-grade distribution
LiveNutriScores(products) ==
    [i \in DOMAIN products |-> Get(products[i], "nutriscore_grade", X)]
LiveNutriScoreCounts(products) == Counter(LiveNutriScores(products))

\* lines 350-351 and 652-653: top brands
Brands(products) == FieldTokens(products, "brands")
TopBrands(products) == MostCommon(Counter(Brands(products)), TopN)

\* lines 354-355 and 672-673: top categories
StripTags(tokens) == [i \in DOMAIN tokens |-> Replace(tokens[i], en_prefix)]
Categories(products) == StripTags(FieldTokens(products, "categories_tags"))
TopCategories(products) == MostCommon(Counter(Categories(products)), TopN)

\* lines 358-359 and 694-695: top ingredients
Ingredients(products) == StripTags(FieldTokens(products, "ingredients_tags"))
TopIngredients(products) == MostCommon(Counter(Ingredients(products)), TopN)

----------------------------------------------------------------------------
(* Product lists the aggregation is run on *)

Acme == <<"A","c","m","e">>
Zeta == <<"Z","e","t","a">>

\* values of nutriscore_grade: empty, lower-case and upper-case grades
GradeValues == {<<>>, <<"a">>, <<"A">>, <<"b">>}
\* values of brands: "Acme, Acme", "Zeta" and seven tokens of six brands
BrandValues ==
    {Acme \o <<",", " ">> \o Acme, Zeta,
     <<"a", ",", "b", ",", "c", ",", "d", ",", "e", ",", "f", ",", ",", "a">>}
\* values of categories_tags and ingredients_tags: "en:s,fr:t" and "en:s"
CategoryValue == <<"e","n",":","s",",","f","r",":","t">>
IngredientValue == <<"e","n",":","s">>

\* a product is a function from some of the field names to strings
Products ==
    {g @@ b @@ t :
        g \in {<<>>} \cup {("nutriscore_grade" :> v) : v \in GradeValues},
        b \in {<<>>} \cup {("brands" :> v) : v \in BrandValues},
        t \in {<<>>, ("categories_tags" :> CategoryValue) @@ ("ingredients_tags" :> IngredientValue)}}

ProductLists == UNION {[1..n -> Products] : n \in 1..MaxProducts}

Countries == {"India", "France"}

----------------------------------------------------------------------------
(* save_data, load_saved_data and the live charts *)

\* json.dumps of the graph data: the dict becomes an object, every
\* (label, count) tuple an array
Dumps(graph) ==
    LET arrays(l) == [i \in DOMAIN l |-> [kind |-> "array", label |-> l[i].label, count |-> l[i].count]]
    IN [nutriscore_distribution |-> graph.nutriscore_distribution,
        top_brands |-> arrays(graph.top_brands),
        top_categories |-> arrays(graph.top_categories),
        top_ingredients |-> arrays(graph.top_ingredients)]

\* json.loads: an object becomes a dict, every array a list
Loads(json) ==
    LET lists(l) == [i \in DOMAIN l |-> [kind |-> "list", label |-> l[i].label, count |-> l[i].count]]
    IN [nutriscore_distribution |-> json.nutriscore_distribution,
        top_brands |-> lists(json.top_brands),
        top_categories |-> lists(json.top_categories),
        top_ingredients |-> lists(json.top_ingredients)]

\* line 362: the display name, made of the country, the product count and
\* the timestamp cut to the minute
DisplayName(country, n, timestamp) ==
    [country |-> country, count |-> n, minute |-> timestamp \div TicksPerMinute]

\* lines 345-376: the row save_data builds
SaveRow(products, country, timestamp) ==
    [country |-> country,
     timestamp |-> timestamp,
     display_name |-> DisplayName(country, Len(products), timestamp),
     total_products |-> Len(products),
     graph_data |-> Dumps([nutriscore_distribution |-> SaveNutriScoreCounts(products),
                           top_brands |-> TopBrands(products),
                           top_categories |-> TopCategories(products),
                           top_ingredients |-> TopIngredients(products)])]

RECURSIVE InsertByKey(_, _)
\* e put into a list sorted ascending by key, after the entries with an
\* equal key
InsertByKey(sorted, e) ==
    IF sorted = <<>> THEN <<e>>
    ELSE IF StrLess(e.key, Head(sorted).key) THEN <<e>> \o sorted
    ELSE <<Head(sorted)>> \o InsertByKey(Tail(sorted), e)

RECURSIVE SortedFrom(_, _)
SortedFrom(items, acc) ==
    IF items = <<>> THEN acc ELSE SortedFrom(Tail(items), InsertByKey(acc, Head(items)))

\* lines 440 and 632: sorted(items, key=lambda x: ('X' if x[0] == 'X' else x[0]))
SortedScores(counts) == SortedFrom(counts, <<>>)

\* the page with no chart on it
NoCharts ==
    [source |-> "none", nutriscore_distribution |-> <<>>, sorted_scores |-> <<>>,
     top_brands |-> <<>>, top_categories |-> <<>>, top_ingredients |-> <<>>]

\* lines 620-695: the charts drawn from the session's products
LiveCharts(products) ==
    [source |-> "live",
     nutriscore_distribution |-> LiveNutriScoreCounts(products),
     sorted_scores |-> SortedScores(LiveNutriScoreCounts(products)),
     top_brands |-> TopBrands(products),
     top_categories |-> TopCategories(products),
     top_ingredients |-> TopIngredients(products)]

\* lines 429-515: the charts drawn from a saved row
SavedCharts(row) ==
    LET graph_data == Loads(row.graph_data)
    IN [source |-> "saved",
        nutriscore_distribution |-> graph_data.nutriscore_distribution,
        sorted_scores |-> SortedScores(graph_data.nutriscore_distribution),
        top_brands |-> graph_data.top_brands,
        top_categories |-> graph_data.top_categories,
        top_ingredients |-> graph_data.top_ingredients]

\* line 394: the rows, latest timestamp first (timestamps are distinct)
RECURSIVE Listing(_)
Listing(rows) ==
    IF rows = <<>> THEN <<>>
    ELSE LET latest == CHOOSE i \in DOMAIN rows :
                          \A j \in DOMAIN rows : rows[j].timestamp <= rows[i].timestamp
         IN <<rows[latest]>>
            \o Listing(SelectSeq(rows, LAMBDA r : r.timestamp # rows[latest].timestamp))

\* the rows without the first one that bears display_name
DeletedFirstOnly(rows, display_name) ==
    LET hits == {i \in DOMAIN rows : rows[i].display_name = display_name}
    IN IF hits = {} THEN rows
       ELSE [i \in 1..(Len(rows) - 1) |-> IF i < Min(hits) THEN rows[i] ELSE rows[i + 1]]

\* lines 523-527: delete().eq('display_name', display_name)
Deleted(rows, display_name) == SelectSeq(rows, LAMBDA r : r.display_name # display_name)

\* lines 342-388: save_data(st.session_state.products, selected_country_name,
\* datetime.now()); the insert may be rejected, and then nothing is stored
SaveData ==
    /\ session_products # <<>>
    /\ Len(store) < MaxRows
    /\ \E timestamp \in (now + 1)..MaxClock, accepted \in BOOLEAN :
         /\ now' = timestamp
         /\ IF accepted
            THEN /\ store' = Append(store, SaveRow(session_products, selected_country_name, timestamp))
                 /\ save_result' = "True"
            ELSE /\ store' = store
                 /\ save_result' = "False"
    /\ UNCHANGED <<session_products, selected_country_name, shown, pageVars>>

\* no deletion reported by the run
NoReport == [reported |-> FALSE, name |-> DisplayName("none", 0, 0), removed |-> 0]

\* line 414: st.success(f"Deleted: {selected_option}"), with the number of
\* rows the store took out
Report(display_name, n) == [reported |-> TRUE, name |-> display_name, removed |-> n]

\* lines 390-521: what load_saved_data draws and what becomes of the store,
\* with option number choice selected and the delete button pressed or not
\* (delete_ok: pressed and the deletion succeeded). After a deletion
\* st.rerun() draws the page again, the first option selected.
LoadedPage(rows, choice, delete_ok) ==
    LET result == Listing(rows)
    IN IF result = <<>> THEN [store |-> rows, shown |-> NoCharts, deleted |-> NoReport]
       ELSE LET selected_option == result[IF choice \in DOMAIN result THEN choice ELSE 1].display_name
                selected_entry ==
                    result[Min({i \in DOMAIN result : result[i].display_name = selected_option})]
                rest == Deleted(rows, selected_option)
            IN IF delete_ok
               THEN [store |-> rest,
                     shown |-> IF rest = <<>> THEN NoCharts ELSE SavedCharts(Listing(rest)[1]),
                     deleted |-> Report(selected_option, Len(rows) - Len(rest))]
               ELSE [store |-> rows, shown |-> SavedCharts(selected_entry),
                     deleted |-> NoReport]

\* lines 390-521 and 547-555: load_saved_data on a store that holds rows,
\* with any option selected and the delete button pressed or not. The mode
\* leaves st.session_state.products at None.
LoadSavedData ==
    /\ store # <<>>
    /\ \E choice \in DOMAIN store, delete_ok \in BOOLEAN :
         /\ store' = LoadedPage(store, choice, delete_ok).store
         /\ shown' = LoadedPage(store, choice, delete_ok).shown
    /\ session_products' = <<>>
    /\ UNCHANGED <<selected_country_name, now, save_result, pageVars>>

\* lines 620-695: the charts of the session's products
RenderLive ==
    /\ session_products # <<>>
    /\ shown' = LiveCharts(session_products)
    /\ UNCHANGED <<session_products, selected_country_name, store, now, save_result, pageVars>>

----------------------------------------------------------------------------
(* The script: mode selection and dispatch (lines 532-710) *)

\* lines 537-545: the options of the mode selector
LoadMode == "Load Saved Data"
ModeOptions ==
    {LoadMode,
     "Get data from compressed CSV Database (recommended)",
     "Get Data from API Endpoint Search (slow)",
     "Get data from Parquet Database (experimental)"}

\* lines 566, 585, 602: the strings the dispatch compares the mode with
ApiBranch == "Get Data from API Endpoint Search (slow)"
CsvBranch == "Get data from compressed CSV Database (.gz)"
ParquetBranch == "Get data from Parquet Database (fast)"

\* lines 571, 590, 607: the fetch button of the branch a mode reaches
FetchButton(m) ==
    CASE m = ApiBranch -> "Fetch Data"
      [] m = CsvBranch -> "Load from CSV"
      [] m = ParquetBranch -> "Load from Parquet"
      [] OTHER -> "none"

\* lines 574, 591, 608: the fetcher that button calls
Fetcher(m) ==
    CASE m = ApiBranch -> "fetch_products_by_country"
      [] m = CsvBranch -> "fetch_products_from_csv"
      [] m = ParquetBranch -> "fetch_products_from_parquet"
      [] OTHER -> "none"

\* the lists a fetcher may return to the script
FetchResults ==
    {<<>>,
     <<("nutriscore_grade" :> <<"a">>) @@ ("brands" :> Zeta)>>,
     <<("brands" :> Zeta), <<>>>>}

\* what the session would hold if every fetch result were stored
AfterFetchAlways(current, fetched) == fetched

\* lines 575-576: if products: st.session_state.products = products
AfterFetch(current, fetched) == IF fetched # <<>> THEN fetched ELSE current

\* lines 547-710: one run of the script with the mode selector at m, the
\* country selector at c, button pressed clicked ("none" for a run caused by
\* a selector), the fetcher returning fetched, datetime.now() being
\* timestamp, the store accepting an insert or not, and in "Load Saved
\* Data" mode option number choice selected and a deletion succeeding or not
Script(m, c, pressed, fetched, timestamp, accepted, choice, delete_ok) ==
    /\ mode' = m
    /\ IF m = LoadMode
       THEN LET loaded == LoadedPage(store, choice, pressed = "Delete" /\ delete_ok)
            IN /\ store' = loaded.store
               /\ shown' = loaded.shown
               /\ session_products' = <<>>
               /\ offered' = IF loaded.store # <<>>
                              THEN {"Select saved data to load:", "Delete"} ELSE {}
               /\ invoked' = "none"
               /\ fetch_ret' = <<>>
               /\ fetched_for' = "none"
               /\ deleted' = loaded.deleted
               /\ UNCHANGED <<selected_country_name, now, save_result>>
       ELSE LET branch == FetchButton(m) # "none"
                fetching == branch /\ pressed = FetchButton(m)
                products == IF fetching THEN AfterFetch(session_products, fetched)
                            ELSE session_products
                saving == branch /\ products # <<>> /\ pressed = "Save Data"
            IN /\ session_products' = products
               /\ selected_country_name' = IF branch THEN c ELSE selected_country_name
               /\ invoked' = IF fetching THEN Fetcher(m) ELSE "none"
               /\ fetch_ret' = IF fetching THEN fetched ELSE <<>>
               /\ fetched_for' = IF fetching /\ fetched # <<>> THEN c ELSE fetched_for
               /\ deleted' = NoReport
               /\ offered' = (IF branch THEN {"Select a Country", FetchButton(m)} ELSE {})
                                \cup (IF branch /\ products # <<>> THEN {"Save Data"} ELSE {})
               /\ IF saving
                  THEN /\ now' = timestamp
                       /\ store' = IF accepted
                                    THEN Append(store, SaveRow(products, c, timestamp))
                                    ELSE store
                       /\ save_result' = IF accepted THEN "True" ELSE "False"
                  ELSE UNCHANGED <<now, store, save_result>>
               /\ shown' = IF products # <<>> THEN LiveCharts(products) ELSE NoCharts

\* the user picks a mode
SelectMode ==
    \E m \in ModeOptions :
        Script(m, selected_country_name, "none", <<>>, now, FALSE, 1, FALSE)

\* the user picks a country
SelectCountry ==
    /\ "Select a Country" \in offered
    /\ \E c \in Countries : Script(mode, c, "none", <<>>, now, FALSE, 1, FALSE)

\* the user presses the fetch button on the page
PressFetch ==
    \E button \in offered \cap {"Fetch Data", "Load from CSV", "Load from Parquet"},
       fetched \in FetchResults :
        Script(mode, selected_country_name, button, fetched, now, FALSE, 1, FALSE)

\* the user presses the save button
PressSave ==
    /\ "Save Data" \in offered
    /\ Len(store) < MaxRows
    /\ \E timestamp \in (now + 1)..MaxClock, accepted \in BOOLEAN :
         Script(mode, selected_country_name, "Save Data", <<>>, timestamp, accepted, 1, FALSE)

\* the user picks a saved entry
SelectSaved ==
    /\ "Select saved data to load:" \in offered
    /\ \E choice \in DOMAIN store :
         Script(mode, selected_country_name, "none", <<>>, now, FALSE, choice, FALSE)

\* the user presses the delete button, an entry being selected
PressDelete ==
    /\ "Delete" \in offered
    /\ \E choice \in DOMAIN store, delete_ok \in BOOLEAN :
         Script(mode, selected_country_name, "Delete", <<>>, now, FALSE, choice, delete_ok)

\* no page has been drawn by the script
IdlePage ==
    /\ mode = LoadMode
    /\ offered = {}
    /\ invoked = "none"
    /\ fetch_ret = <<>>
    /\ fetched_for = "none"
    /\ deleted = NoReport

\* no tag is being looked at
IdleStrip ==
    /\ raw_tag = <<>>
    /\ stripped = <<>>

\* the session before anything is fetched
IdleApp ==
    /\ session_products = <<>>
    /\ selected_country_name = "India"
    /\ store = <<>>
    /\ now = 0
    /\ shown = NoCharts
    /\ save_result = "none"

----------------------------------------------------------------------------
(* Specifications *)

NextFetch ==
    \/ FirstRequest /\ UNCHANGED <<csvVars, appVars, pageVars, stripVars>>
    \/ LoopIter /\ UNCHANGED <<csvVars, appVars, pageVars, stripVars>>
    \/ FetchReturn /\ UNCHANGED <<csvVars, appVars, pageVars, stripVars>>

\* one call of fetch_products_by_country against any answers of the endpoint
FetchStart == InitFetch /\ IdleCsv /\ IdleApp /\ IdlePage /\ IdleStrip
SpecFetch == FetchStart /\ [][NextFetch]_vars

NextCsv ==
    \/ CsvOpen /\ UNCHANGED <<fetchVars, appVars, pageVars, stripVars>>
    \/ CsvFilter /\ UNCHANGED <<fetchVars, appVars, pageVars, stripVars>>
    \/ CsvParse /\ UNCHANGED <<fetchVars, appVars, pageVars, stripVars>>
    \/ CsvFinally /\ UNCHANGED <<fetchVars, appVars, pageVars, stripVars>>

\* one call of fetch_products_from_csv on any dump, with failures anywhere
CsvStart == InitCsv /\ IdleFetch /\ IdleApp /\ IdlePage /\ IdleStrip
SpecCsv == CsvStart /\ [][NextCsv]_vars

InitAgg ==
    /\ session_products \in ProductLists
    /\ selected_country_name \in Countries
    /\ store = <<>>
    /\ now = 0
    /\ shown = NoCharts
    /\ save_result = "none"

NextAgg ==
    \/ SaveData /\ UNCHANGED <<fetchVars, csvVars, stripVars>>
    \/ LoadSavedData /\ UNCHANGED <<fetchVars, csvVars, stripVars>>
    \/ RenderLive /\ UNCHANGED <<fetchVars, csvVars, stripVars>>

NextUI ==
    \/ SelectMode /\ UNCHANGED <<fetchVars, csvVars, stripVars>>
    \/ SelectCountry /\ UNCHANGED <<fetchVars, csvVars, stripVars>>
    \/ PressFetch /\ UNCHANGED <<fetchVars, csvVars, stripVars>>
    \/ PressSave /\ UNCHANGED <<fetchVars, csvVars, stripVars>>
    \/ SelectSaved /\ UNCHANGED <<fetchVars, csvVars, stripVars>>
    \/ PressDelete /\ UNCHANGED <<fetchVars, csvVars, stripVars>>

\* a session of the dashboard: the page after the first run of the script
\* (first mode selected, empty store), then any user actions
UIStart == IdleApp /\ IdlePage /\ IdleFetch /\ IdleCsv /\ IdleStrip
SpecUI == UIStart /\ [][NextUI]_vars

\* the characters tags are made of
TagChars == {"e", "n", ":", "x"}

\* lines 355, 359, 672, 694: the tags the removal is applied to are the
\* non-empty comma-separated tokens of a tag field
Tags == UNION {[1..n -> TagChars] : n \in 1..MaxTagLen}

InitStrip ==
    /\ raw_tag \in Tags
    /\ stripped = <<>>

\* lines 355, 359, 672, 694: tag.replace('en:', '') applied to the tag, or
\* to what the previous application made of it
StripTag ==
    /\ Len(stripped) < MaxStrips
    /\ LET current == IF stripped = <<>> THEN raw_tag ELSE stripped[Len(stripped)]
       IN stripped' = Append(stripped, StripTags(<<current>>)[1])
    /\ UNCHANGED raw_tag

NextStrip ==
    \/ StripTag /\ UNCHANGED <<fetchVars, csvVars, appVars, pageVars>>

\* the prefix removal applied over and over to any tag
StripStart == InitStrip /\ IdleFetch /\ IdleCsv /\ IdleApp /\ IdlePage
SpecStrip == StripStart /\ [][NextStrip]_vars

\* a session holding any product list: the list is drawn as charts, saved,
\* and the saved rows are loaded and deleted
AggStart == InitAgg /\ IdlePage /\ IdleFetch /\ IdleCsv /\ IdleStrip
SpecAgg == AggStart /\ [][NextAgg]_vars

----------------------------------------------------------------------------
(* Properties of fetch_products_by_country *)

\* the page_count page 1 reports, as the fetcher reads it
ReportedPages == GetPageCount(api_pages[1], 1)

\* the pages requested, in the order of the requests
RequestedPages ==
    LET reqs == SelectSeq(api_log, LAMBDA e : e.op = "request")
    IN [i \in 1..Len(reqs) |-> reqs[i].page]

RECURSIVE ExpectedLog(_)
\* request 1, then for each page 2..n a delay followed by the page's request
ExpectedLog(n) ==
    IF n <= 1 THEN <<Request(1)>> ELSE ExpectedLog(n - 1) \o <<Sleep, Request(n)>>

C3_FailureStopsPagination ==
    /\ fpc # "done" => ENABLED NextFetch
    /\ fpc = "done" =>
         IF ~api_pages[1].ok
         THEN api_ret = <<>> /\ api_log = <<Request(1)>>
         ELSE LET failing == {k \in 2..ReportedPages : ~api_pages[k].ok}
              IN failing # {} =>
                   LET k == Min(failing)
                   IN /\ api_ret = Concat([j \in 1..(k - 1) |-> api_pages[j].products])
                      /\ RequestedPages = [j \in 1..k |-> j]

\* a finished crawl whose request of some page k > 1 failed after products
\* had been accumulated
C3_Witness ==
    /\ fpc = "done"
    /\ api_pages[1].ok
    /\ \E k \in 2..ReportedPages : ~api_pages[k].ok
    /\ api_ret # <<>>

----------------------------------------------------------------------------
(* Properties of fetch_products_from_csv *)

RawFields(line) ==
    Split(IF line # <<>> /\ line[Len(line)] = Newline
          THEN SubSeq(line, 1, Len(line) - 1) ELSE line, Tab)

HeaderColumns == <<col_a, countries_tags, col_b>>

\* C5: a data line whose number of fields differs from the number of header
\* columns yields no record, so every returned record is the full record (a
\* value for every header column) of a line with as many fields as the
\* header.
C5_MismatchedLinesSkipped ==
    cpc = "done" =>
        \A i \in DOMAIN csv_ret :
            /\ DOMAIN csv_ret[i] = {HeaderColumns[c] : c \in DOMAIN HeaderColumns}
            /\ \E j \in DOMAIN csv_data :
                 /\ Len(RawFields(csv_data[j])) = Len(HeaderColumns)
                 /\ csv_ret[i] = DictZip(HeaderColumns, RawFields(csv_data[j]))

\* whether the countries_tags field of a data line contains the tag, cases
\* ignored
FieldHasTag(line, tag) ==
    LET fields == RawFields(line)
        c == CHOOSE c \in DOMAIN HeaderColumns : HeaderColumns[c] = countries_tags
    IN c <= Len(fields) /\ Contains(Lower(fields[c]), Lower(tag))

\* C6: when the scan of a dump whose lines all have as many fields as the
\* header ends without a failure, the result holds, in file order, exactly
\* one record for each data line whose countries_tags field contains the
\* country tag (cases ignored), and none for any other line.
C6_RecordPerMatchingLine ==
    ( /\ cpc = "done"
      /\ csv_msg \in {"Successfully loaded", "No valid products found", "No products found"}
      /\ \A j \in DOMAIN csv_data : Len(RawFields(csv_data[j])) = Len(HeaderColumns) )
    => LET wanted == SelectSeq(csv_data, LAMBDA l : FieldHasTag(l, CountryTag(country_code)))
       IN /\ Len(csv_ret) = Len(wanted)
          /\ \A i \in DOMAIN csv_ret :
               csv_ret[i] = LineProduct(HeaderColumns, wanted[i])

----------------------------------------------------------------------------
(* Properties of the aggregation and of the save / load round trip *)

\* a distribution as a mapping: its (key, count) pairs
Items(counts) == {<<counts[i].key, counts[i].count>> : i \in DOMAIN counts}

\* a top list as its (label, count) pairs in order, tuples and lists alike
Pairs(top) == [i \in DOMAIN top |-> <<top[i].label, top[i].count>>]

\* the four distributions behind a page of charts
Distributions(charts) ==
    <<Items(charts.nutriscore_distribution), Pairs(charts.top_brands),
      Pairs(charts.top_categories), Pairs(charts.top_ingredients)>>

\* C1: the four distributions read back from a row that save_data stored
\* for the session's product list equal the four distributions the live
\* chart code computes from the same list.
C1_RoundTripEqualsLive ==
    [][(session_products # <<>> /\ shown'.source = "saved")
         => Distributions(shown') = Distributions(LiveCharts(session_products))]_vars

RECURSIVE SumCounts(_)
SumCounts(counts) ==
    IF counts = <<>> THEN 0 ELSE Head(counts).count + SumCounts(Tail(counts))

\* the sentinel bucket of products without a grade, as either code path
\* may spell it
Sentinels == {X, unknown, Upper(unknown)}

\* every product counted once: the counts sum to the number of products and
\* every bucket but the sentinel's is an upper-case grade holding the
\* products with that grade, cases ignored
CountsEveryProduct(counts, products) ==
    /\ SumCounts(counts) = Len(products)
    /\ \A i \in DOMAIN counts :
         counts[i].key \notin Sentinels =>
            /\ counts[i].key # <<>>
            /\ counts[i].key = Upper(counts[i].key)
            /\ counts[i].count =
                 Cardinality({j \in DOMAIN products :
                                Upper(Get(products[j], "nutriscore_grade", <<>>)) = counts[i].key})

\* C8: the nutrition-grade distribution, as save_data stores it and as the
\* live chart computes it, counts every product of the list exactly once,
\* under the sentinel when the grade is absent or empty and under the
\* upper-cased grade otherwise.
C8_GradeCountsEveryProduct ==
    session_products # <<>> =>
        /\ \A i \in DOMAIN store :
             CountsEveryProduct(store[i].graph_data.nutriscore_distribution, session_products)
        /\ shown.source = "live" =>
             CountsEveryProduct(shown.nutriscore_distribution, session_products)

\* C9: brand tokens are trimmed before counting: no label of top_brands is
\* empty or starts or ends with whitespace, and the products
\* [{brands: "Acme, Acme"}, {brands: "Zeta"}] give [("Acme", 2), ("Zeta", 1)],
\* in the live charts and in the row save_data stores.
C9_BrandsTrimmed ==
    LET clean(top) == \A i \in DOMAIN top : top[i].label # <<>> /\ Strip(top[i].label) = top[i].label
        scenario == <<("brands" :> (Acme \o <<",", " ">> \o Acme)), ("brands" :> Zeta)>>
        expected == <<<<Acme, 2>>, <<Zeta, 1>>>>
    IN /\ \A i \in DOMAIN store : clean(store[i].graph_data.top_brands)
       /\ clean(shown.top_brands)
       /\ session_products = scenario =>
            /\ \A i \in DOMAIN store : Pairs(store[i].graph_data.top_brands) = expected
            /\ shown.source = "live" => Pairs(shown.top_brands) = expected

GradeLabels == {<<"A">>, <<"B">>, <<"C">>, <<"D">>, <<"E">>}

\* a top list has at most five entries, largest count first
TopListOk(top) ==
    /\ Len(top) <= 5
    /\ \A i \in 1..(Len(top) - 1) : top[i].count >= top[i + 1].count

\* the charts' data respect the shape of an aggregation result
ShapeOk(graph) ==
    /\ TopListOk(graph.top_brands)
    /\ TopListOk(graph.top_categories)
    /\ TopListOk(graph.top_ingredients)
    /\ \A i \in DOMAIN graph.nutriscore_distribution :
         graph.nutriscore_distribution[i].key \in GradeLabels \cup Sentinels

\* C10: in the row save_data stores and in the live charts, each of
\* top_brands, top_categories and top_ingredients has at most 5 entries in
\* descending order of count, and every key of the nutrition-grade
\* distribution is one of A, B, C, D, E or the sentinel.
C10_ShapeOfAggregation ==
    /\ \A i \in DOMAIN store : ShapeOk(store[i].graph_data)
    /\ ShapeOk(shown)

\* the part of C10 about the top lists alone
TopListsOk ==
    /\ \A i \in DOMAIN store :
         /\ TopListOk(store[i].graph_data.top_brands)
         /\ TopListOk(store[i].graph_data.top_categories)
         /\ TopListOk(store[i].graph_data.top_ingredients)
    /\ TopListOk(shown.top_brands) /\ TopListOk(shown.top_categories)
    /\ TopListOk(shown.top_ingredients)

----------------------------------------------------------------------------
(* Properties of the mode dispatch *)

\* the fetcher each fetch mode of the selector stands for
ModeFetcher(m) ==
    CASE m = "Get Data from API Endpoint Search (slow)" -> "fetch_products_by_country"
      [] m = "Get data from compressed CSV Database (recommended)" -> "fetch_products_from_csv"
      [] m = "Get data from Parquet Database (experimental)" -> "fetch_products_from_parquet"
      [] OTHER -> "none"

\* C7: with any of the three fetch modes of the selector selected, the page
\* offers the country selector and a fetch button, and a press of that button
\* calls the mode's own fetcher: no offered mode is a dead end.
C7_NoDeadEndMode ==
    mode \in ModeOptions \ {LoadMode} =>
        /\ "Select a Country" \in offered
        /\ offered \cap {"Fetch Data", "Load from CSV", "Load from Parquet"} # {}
        /\ invoked \in {"none", ModeFetcher(mode)}

----------------------------------------------------------------------------
(* Properties of the tag prefix removal *)

\* C11: removing the language prefix from a tag a second time changes
\* nothing: for every tag t, strip(strip(t)) = strip(t).
C11_StripIdempotent ==
    Len(stripped) >= 2 => stripped[2] = stripped[1]

----------------------------------------------------------------------------
(* Properties of the saved-summary store and of the session *)

\* C12: when a run of the script reports "Deleted: <name>", the listing
\* drawn next holds no entry whose display name is <name>, whatever was
\* saved before, entries sharing one display name included.
C12_DeletedNameGone ==
    deleted.reported =>
        \A i \in DOMAIN Listing(store) : Listing(store)[i].display_name # deleted.name

\* a deletion that took out several entries bearing one display name
C12_Witness ==
    /\ deleted.reported
    /\ deleted.removed >= 2

\* what the page shows of a session holding products
Rendered(products) == IF products # <<>> THEN LiveCharts(products) ELSE NoCharts

\* C13: a run of the script whose fetcher returns nothing (a failed or an
\* empty fetch), and a run whose save fails, leave the session's product
\* list as it was, draw that same list, and add nothing to the store.
C13_FailuresKeepSession ==
    [][/\ (invoked' # "none" /\ fetch_ret' = <<>>) =>
            /\ session_products' = session_products
            /\ shown' = Rendered(session_products)
            /\ store' = store
       /\ (now' # now /\ save_result' = "False") =>
            /\ session_products' = session_products
            /\ shown' = Rendered(session_products)
            /\ store' = store]_vars

\* a fetch that returned nothing in a session that holds products and has
\* seen a save fail
C13_Witness ==
    /\ invoked # "none"
    /\ fetch_ret = <<>>
    /\ session_products # <<>>
    /\ save_result = "False"

\* C14: in every nutrition-grade chart, drawn from fetched products or from
\* a saved entry, the sentinel bucket 'X', if there is one, comes last and
\* the grade buckets before it are in ascending order of their labels.
C14_GradesAscendingSentinelLast ==
    LET bars == shown.sorted_scores
    IN shown.source # "none" =>
         /\ \A i \in DOMAIN bars : bars[i].key = X => i = Len(bars)
         /\ \A i, j \in DOMAIN bars :
              (i < j /\ bars[i].key # X /\ bars[j].key # X) => StrLess(bars[i].key, bars[j].key)

\* C15: whenever a save adds an entry to the store, the session holds a
\* non-empty product list, the entry's country is the one that list was
\* fetched for, and the entry's product count is the length of that list.
C15_SavedEntryMatchesFetch ==
    [][Len(store') > Len(store) =>
          LET row == store'[Len(store')]
          IN /\ session_products # <<>>
             /\ row.country = fetched_for
             /\ row.total_products = Len(session_products)]_vars

====
